---------------------------- MODULE Spec2Model ----------------------------
(***************************************************************************)
(* A model of nnauriya/AppCreator: the LLM fallback orchestrator           *)
(* (src/utils/llm_helpers.py) and the response extractors (src/app.py).    *)
(***************************************************************************)
EXTENDS Naturals, Sequences, FiniteSets, TLC

VARIABLES
    \* ---- query_llm (src/utils/llm_helpers.py) ----
    qpc,           \* position of the running query_llm call
    provider,      \* argument provider (None when not given)
    model,         \* argument model (None when not given)
    LLM_PRIORITY,  \* the static priority list of utils/llm_config.py
    environ,       \* names of the environment variables that are set
    config_list,   \* local config_list
    pos,           \* 1-based position of the for loop in config_list
    tried,         \* local tried
    errors,        \* local errors
    calls,         \* history: one record per invocation of a provider function
    in_flight,     \* HTTP requests sent and not yet answered
    http_requests, \* number of requests.post calls made so far
    result,        \* value returned to the caller
    raised,        \* exception that left query_llm
    \* ---- parse_framework_suggestion (src/app.py) ----
    fpc, response, framework, justification,
    \* ---- parse_tool_discovery_code_block (src/app.py) ----
    tpc, tool_response, internal_tools, external_tools, effects,
    \* ---- extract_list_or_json (src/app.py) ----
    xpc,           \* position of the running extract_list_or_json call
    list_response, \* argument response, as tokens
    extracted,     \* value returned
    \* ---- write_text_log (src/utils/file_helpers.py) ----
    files,         \* content of each log file, as characters
    written,       \* history: one record per call of write_text_log
    \* ---- cached_query_llm and "Clear LLM Cache" (src/app.py) ----
    cache,         \* entries of st.cache_data: key -> text
    cache_log,     \* history: the calls of cached_query_llm and the clears
    \* ---- the wizard, main() (src/app.py) ----
    session_state, \* st.session_state: the keys present and their values
    widgets,       \* what the six text areas hold (keys what_input, ...)
    wizard_log,    \* the log files appended to by write_text_log, in order
    last_run       \* the latest script run: button clicked, outcome, buttons shown

qvars == <<qpc, provider, model, LLM_PRIORITY, environ, config_list, pos,
           tried, errors, calls, in_flight, http_requests, result, raised>>
fvars == <<fpc, response, framework, justification>>
tvars == <<tpc, tool_response, internal_tools, external_tools, effects>>
xvars == <<xpc, list_response, extracted>>
lvars == <<files, written>>
cvars == <<cache, cache_log>>
wvars == <<session_state, widgets, wizard_log, last_run>>
vars  == <<qvars, fvars, tvars, xvars, lvars, cvars, wvars>>

\* Python's None, and the marker of "no value yet".
None == "<None>"
NoValue == "<no value>"

\* A Python value of the tool-discovery extractor: a list of strings, an int,
\* or nothing yet.
PyList(items) == [type |-> "list", items |-> items]
PyInt == [type |-> "int", items |-> <<>>]
Unset == [type |-> "unset", items |-> <<>>]

\* No exception has left the function.
NotRaised == [type |-> NoValue, message |-> NoValue]

(***************************************************************************)
(* Bounds of the model.                                                    *)
(***************************************************************************)
MaxPriority == 2    \* longest static priority list drawn

(***************************************************************************)
(* utils/llm_helpers.py                                                    *)
(***************************************************************************)
Conf(p, m) == [provider |-> p, model |-> m]

\* PROVIDER_FN: the providers that have an invoker.
PROVIDER_FN == {"groq", "google"}

\* The environment variable each invoker reads.
ApiKeyName(prov) == IF prov = "groq" THEN "GROQ_API_KEY" ELSE "GOOGLE_API_KEY"

\* A variant of Truthy that takes every string, the empty one too, as given.
Truthy_AnyString(s) == s # None

\* Python truthiness of an optional string argument.
Truthy(s) == s # None /\ s # ""

\* The (provider, model) pairs that static priority lists are drawn from.
\* The first and the third are the entries of the shipped LLM_PRIORITY.
Pairs == { Conf("groq", "llama3-70b-8192"),
           Conf("groq", "llama3-8b-8192"),
           Conf("google", "gemini-2.0-flash"),
           Conf("openai", "gpt-4o") }

ShippedPriority == << Conf("groq", "llama3-70b-8192"),
                      Conf("google", "gemini-2.0-flash") >>

\* All sequences over S of length at most n.
RECURSIVE SeqsUpTo(_, _)
SeqsUpTo(S, n) ==
    IF n = 0 THEN { <<>> }
    ELSE LET shorter == SeqsUpTo(S, n - 1)
         IN  shorter \cup { Append(s, x) : s \in shorter, x \in S }

PriorityLists == SeqsUpTo(Pairs, MaxPriority)

\* The (provider, model) arguments a caller passes.
PreferredArgs == { <<None, None>>,
                   <<"groq", None>>,
                   <<"groq", "">>,
                   <<"", "llama3-70b-8192">>,
                   <<"groq", "llama3-70b-8192">>,
                   <<"groq", "llama3-8b-8192">>,
                   <<"google", "gemini-2.0-flash">>,
                   <<"openai", "gpt-4o">> }


\* A variant of KeepEntry that drops the duplicate test of line 63.
KeepEntry_All(p_conf, p, m) == TRUE

\* Line 63: a priority entry is kept unless it equals the (provider, model)
\* arguments.
KeepEntry(p_conf, p, m) == <<p_conf.provider, p_conf.model>> # <<p, m>>

\* Lines 62-64: the for loop that appends the kept priority entries.
RECURSIVE AddFromPriority(_, _, _, _)
AddFromPriority(acc, prio, p, m) ==
    IF prio = <<>> THEN acc
    ELSE AddFromPriority(IF KeepEntry(Head(prio), p, m)
                            THEN Append(acc, Head(prio)) ELSE acc,
                         Tail(prio), p, m)

\* Lines 57-64: config_list.
ConfigList(p, m, prio) ==
    AddFromPriority(IF Truthy(p) /\ Truthy(m) THEN << Conf(p, m) >> ELSE <<>>,
                    prio, p, m)

\* A variant of ShouldSkip that forgets the tried set.
ShouldSkip_NoTried(conf, tr) == conf.provider \notin PROVIDER_FN

\* A variant of ShouldSkip that drops the "not fn" test of line 72.
ShouldSkip_OnlyTried(conf, tr) == <<conf.provider, conf.model>> \in tr

\* Line 72: "if not fn or (prov, mod) in tried: continue".
ShouldSkip(conf, tr) ==
    \/ conf.provider \notin PROVIDER_FN
    \/ <<conf.provider, conf.model>> \in tr

\* Lines 8-9 and 32-33: the message of the ValueError of a missing secret.
MissingKeyMessage(prov) == ApiKeyName(prov) \o " environment variable not set."

\* What the provider's HTTP endpoint may do with one request.
Responses == { "connection_error",  \* requests.post raises (timeout, no route)
               "http_error",        \* non-2xx status: raise_for_status raises
               "empty_list",        \* 200, "choices"/"candidates" is []
               "null_text",         \* 200, the completion text is null
               "empty_text",        \* 200, the completion text is ""
               "text" }             \* 200, a completion

\* Lines 24-27 and 41-44: what the invoker does with the response: it raises
\* (with the exception's type and message) or returns a value.
Invoker(resp) ==
    CASE resp = "connection_error" ->
            [raises |-> TRUE, type |-> "ConnectionError",
             value |-> "connection failed"]
      [] resp = "http_error" ->
            [raises |-> TRUE, type |-> "HTTPError",
             value |-> "500 Server Error"]
      [] resp = "empty_list" ->
            [raises |-> TRUE, type |-> "IndexError",
             value |-> "list index out of range"]
      [] resp = "null_text" ->
            [raises |-> FALSE, type |-> "", value |-> None]
      [] resp = "empty_text" ->
            [raises |-> FALSE, type |-> "", value |-> ""]
      [] OTHER ->
            [raises |-> FALSE, type |-> "", value |-> "completion"]

\* A variant of Caught: "except requests.RequestException".
Caught_RequestsOnly(type) == type \in {"ConnectionError", "HTTPError"}

\* Line 80: "except Exception" catches every exception type an invoker raises.
Caught(type) == type \in {"ValueError", "ConnectionError", "HTTPError",
                          "IndexError", "KeyError", "TypeError"}

\* A variant of FormatError that leaves the model out of the entry.
FormatError_NoModel(prov, mod, reason) == prov \o " -- " \o reason

\* Line 82: the entry appended to errors.
FormatError(prov, mod, reason) == prov \o ":" \o mod \o " -- " \o reason

\* Line 85: " | ".join(...)
RECURSIVE Join(_, _)
Join(sep, strs) ==
    IF strs = <<>> THEN ""
    ELSE IF Len(strs) = 1 THEN strs[1]
    ELSE strs[1] \o sep \o Join(sep, Tail(strs))

\* Line 85: the message of the RuntimeError.
AllFailedMessage(errs) ==
    "All LLM providers failed. Errors: " \o Join(" | ", errs)

IdleF == fpc = "off" /\ response = <<>> /\ framework = <<>>
         /\ justification = <<>>
IdleT == tpc = "off" /\ tool_response = <<>> /\ internal_tools = Unset
         /\ external_tools = Unset /\ effects = <<>>
IdleX == xpc = "off" /\ list_response = <<>> /\ extracted = Unset
IdleL == files = <<>> /\ written = <<>>
IdleC == cache = <<>> /\ cache_log = <<>>
IdleW == session_state = <<>> /\ widgets = <<>> /\ wizard_log = <<>>
         /\ last_run = <<>>

\* A call query_llm(prompt, provider, model) about to run its first line.
InitQuery ==
    /\ qpc = "start"
    /\ \E a \in PreferredArgs : provider = a[1] /\ model = a[2]
    /\ LLM_PRIORITY \in PriorityLists
    /\ environ \in SUBSET {"GROQ_API_KEY", "GOOGLE_API_KEY"}
    /\ config_list = <<>> /\ pos = 0 /\ tried = {} /\ errors = <<>>
    /\ calls = <<>> /\ in_flight = 0 /\ http_requests = 0
    /\ result = NoValue /\ raised = NotRaised
    /\ IdleF /\ IdleT /\ IdleX /\ IdleL /\ IdleC /\ IdleW

\* Lines 53-64.
BuildConfigList ==
    /\ qpc = "start"
    /\ tried' = {}
    /\ errors' = <<>>
    /\ config_list' = ConfigList(provider, model, LLM_PRIORITY)
    /\ pos' = 1
    /\ qpc' = "loop"
    /\ UNCHANGED <<provider, model, LLM_PRIORITY, environ, calls, in_flight,
                   result, raised, fvars, tvars,
                   xvars, lvars, cvars, http_requests,
                   wvars>>

\* Lines 67-73: a candidate without invoker, or already tried, is passed over.
SkipCandidate ==
    /\ qpc = "loop" /\ pos <= Len(config_list)
    /\ ShouldSkip(config_list[pos], tried)
    /\ pos' = pos + 1
    /\ UNCHANGED <<qpc, provider, model, LLM_PRIORITY, environ, config_list,
                   tried, errors, calls, in_flight, result, raised,
                   fvars, tvars,
                   xvars, lvars, cvars, http_requests,
                   wvars>>

\* Does the invoker find its secret (lines 6-9, 30-33)?
HasKey(prov, env) == ApiKeyName(prov) \in env

\* A variant of InvokeMissingKey in which the secret is looked up only after the
\* request was posted.
InvokeMissingKey_PostFirst ==
    /\ qpc = "loop" /\ pos <= Len(config_list)
    /\ LET conf == config_list[pos]
           msg  == MissingKeyMessage(conf.provider)
       IN  /\ ~ShouldSkip(conf, tried)
           /\ ~HasKey(conf.provider, environ)
           /\ tried' = tried \cup { <<conf.provider, conf.model>> }
           /\ calls' = Append(calls, [conf |-> conf, at |-> pos, sent |-> TRUE,
                                      raises |-> TRUE, value |-> msg])
           /\ errors' = Append(errors,
                               FormatError(conf.provider, conf.model, msg))
           /\ pos' = pos + 1
    /\ http_requests' = http_requests + 1
    /\ UNCHANGED <<qpc, raised, provider, model, LLM_PRIORITY, environ,
                   config_list, in_flight, result, fvars, tvars, xvars, lvars,
                   cvars,
                   wvars>>

\* Lines 67-82 with lines 6-9 / 30-33: the candidate is invoked, its secret is
\* not set, the invoker raises ValueError, which line 80 catches.
InvokeMissingKey ==
    /\ qpc = "loop" /\ pos <= Len(config_list)
    /\ LET conf == config_list[pos]
           msg  == MissingKeyMessage(conf.provider)
       IN  /\ ~ShouldSkip(conf, tried)
           /\ ~HasKey(conf.provider, environ)
           /\ tried' = tried \cup { <<conf.provider, conf.model>> }
           /\ calls' = Append(calls, [conf |-> conf, at |-> pos, sent |-> FALSE,
                                      raises |-> TRUE, value |-> msg])
           /\ IF Caught("ValueError")
                 THEN /\ errors' = Append(errors,
                                     FormatError(conf.provider, conf.model, msg))
                      /\ pos' = pos + 1
                      /\ UNCHANGED <<qpc, raised>>
                 ELSE /\ raised' = [type |-> "ValueError", message |-> msg]
                      /\ qpc' = "raised"
                      /\ UNCHANGED <<errors, pos>>
    /\ UNCHANGED <<provider, model, LLM_PRIORITY, environ, config_list,
                   in_flight, result, fvars, tvars,
                   xvars, lvars, cvars, http_requests,
                   wvars>>

\* A variant of InvokePost that posts the request to both endpoints at once.
InvokePost_Both ==
    /\ qpc = "loop" /\ pos <= Len(config_list)
    /\ LET conf == config_list[pos]
       IN  /\ ~ShouldSkip(conf, tried)
           /\ HasKey(conf.provider, environ)
           /\ tried' = tried \cup { <<conf.provider, conf.model>> }
           /\ calls' = Append(calls, [conf |-> conf, at |-> pos, sent |-> TRUE,
                                      raises |-> FALSE, value |-> NoValue])
    /\ in_flight' = in_flight + 2
    /\ qpc' = "http"
    /\ http_requests' = http_requests + 2
    /\ UNCHANGED <<provider, model, LLM_PRIORITY, environ, config_list, pos,
                   errors, result, raised, fvars, tvars, xvars, lvars,
                   cvars,
                   wvars>>

\* Lines 67-79 with lines 6-24 / 30-41: the candidate is invoked, its secret is
\* set, and the invoker posts its one HTTP request and blocks on it.
InvokePost ==
    /\ qpc = "loop" /\ pos <= Len(config_list)
    /\ LET conf == config_list[pos]
       IN  /\ ~ShouldSkip(conf, tried)
           /\ HasKey(conf.provider, environ)
           /\ tried' = tried \cup { <<conf.provider, conf.model>> }
           /\ calls' = Append(calls, [conf |-> conf, at |-> pos, sent |-> TRUE,
                                      raises |-> FALSE, value |-> NoValue])
    /\ in_flight' = in_flight + 1
    /\ qpc' = "http"
    /\ http_requests' = http_requests + 1
    /\ UNCHANGED <<provider, model, LLM_PRIORITY, environ, config_list, pos,
                   errors, result, raised, fvars, tvars, xvars, lvars,
                   cvars,
                   wvars>>

\* A variant of Respond that keeps a completion but goes on to the next
\* candidate instead of returning.
Respond_NoShortCircuit ==
    /\ qpc = "http"
    /\ \E resp \in Responses :
         LET o    == Invoker(resp)
             conf == config_list[pos]
             n    == Len(calls)
         IN  /\ in_flight' = in_flight - 1
             /\ calls' = [calls EXCEPT ![n].raises = o.raises,
                                       ![n].value = o.value]
             /\ result' = IF o.raises THEN result ELSE o.value
             /\ errors' = IF o.raises
                             THEN Append(errors, FormatError(conf.provider,
                                                   conf.model, o.value))
                             ELSE errors
             /\ pos' = pos + 1
             /\ qpc' = IF pos + 1 > Len(config_list) /\ ~o.raises
                          THEN "returned" ELSE "loop"
    /\ UNCHANGED <<provider, model, LLM_PRIORITY, environ, config_list, tried,
                   raised, fvars, tvars,
                   xvars, lvars, cvars, http_requests,
                   wvars>>

\* Lines 24-27 / 41-44 and 79-82: the response arrives; the invoker returns
\* (and so does query_llm) or raises (and the loop goes on).
Respond ==
    /\ qpc = "http"
    /\ \E resp \in Responses :
         LET o    == Invoker(resp)
             conf == config_list[pos]
             n    == Len(calls)
         IN  /\ in_flight' = in_flight - 1
             /\ calls' = [calls EXCEPT ![n].raises = o.raises,
                                       ![n].value = o.value]
             /\ IF ~o.raises
                   THEN /\ result' = o.value
                        /\ qpc' = "returned"
                        /\ UNCHANGED <<errors, pos, raised>>
                   ELSE IF Caught(o.type)
                   THEN /\ errors' = Append(errors,
                               FormatError(conf.provider, conf.model, o.value))
                        /\ pos' = pos + 1
                        /\ qpc' = "loop"
                        /\ UNCHANGED <<result, raised>>
                   ELSE /\ raised' = [type |-> o.type, message |-> o.value]
                        /\ qpc' = "raised"
                        /\ UNCHANGED <<errors, pos, result>>
    /\ UNCHANGED <<provider, model, LLM_PRIORITY, environ, config_list, tried,
                   fvars, tvars,
                   xvars, lvars, cvars, http_requests,
                   wvars>>

\* Line 85: the list is exhausted.
RaiseAllFailed ==
    /\ qpc = "loop" /\ pos > Len(config_list)
    /\ raised' = [type |-> "RuntimeError",
                  message |-> AllFailedMessage(errors)]
    /\ qpc' = "raised"
    /\ UNCHANGED <<provider, model, LLM_PRIORITY, environ, config_list, pos,
                   tried, errors, calls, in_flight, result, fvars, tvars,
                   xvars, lvars, cvars, http_requests,
                   wvars>>

NextQuery ==
    \/ BuildConfigList
    \/ SkipCandidate
    \/ InvokeMissingKey
    \/ InvokePost
    \/ Respond
    \/ RaiseAllFailed

SpecQuery == InitQuery /\ [][NextQuery]_vars


(***************************************************************************)
(* src/app.py: parse_framework_suggestion.  A text is a sequence of        *)
(* one-character strings.                                                  *)
(***************************************************************************)
MaxLines == 2     \* most lines in a response drawn

UpperCase == <<"A", "B", "C", "D", "E", "F", "G", "H", "I", "J", "K", "L", "M",
               "N", "O", "P", "Q", "R", "S", "T", "U", "V", "W", "X", "Y", "Z">>
LowerCase == <<"a", "b", "c", "d", "e", "f", "g", "h", "i", "j", "k", "l", "m",
               "n", "o", "p", "q", "r", "s", "t", "u", "v", "w", "x", "y", "z">>

\* str.lower(), one character and a whole text.
LowerChar(c) ==
    IF \E i \in 1..Len(UpperCase) : UpperCase[i] = c
       THEN LowerCase[CHOOSE i \in 1..Len(UpperCase) : UpperCase[i] = c]
       ELSE c
Lower(text) == [i \in 1..Len(text) |-> LowerChar(text[i])]

\* The characters str.strip() removes.
Whitespace == {" ", "\n", "\t"}

\* str.strip()
RECURSIVE LStrip(_)
LStrip(text) ==
    IF text # <<>> /\ Head(text) \in Whitespace THEN LStrip(Tail(text)) ELSE text
RECURSIVE RStrip(_)
RStrip(text) ==
    IF text # <<>> /\ text[Len(text)] \in Whitespace
       THEN RStrip(SubSeq(text, 1, Len(text) - 1)) ELSE text
Strip(text) == RStrip(LStrip(text))

\* str.splitlines(): the pieces between line ends; a final line end opens no
\* further line.
RECURSIVE SplitLinesFrom(_, _, _)
SplitLinesFrom(text, cur, acc) ==
    IF text = <<>> THEN (IF cur = <<>> THEN acc ELSE Append(acc, cur))
    ELSE IF Head(text) = "\n"
         THEN SplitLinesFrom(Tail(text), <<>>, Append(acc, cur))
         ELSE SplitLinesFrom(Tail(text), Append(cur, Head(text)), acc)
SplitLines(text) == SplitLinesFrom(text, <<>>, <<>>)

\* A variant of StartsWith that finds the prefix anywhere in the line.
RECURSIVE StartsWith_Anywhere(_, _)
StartsWith_Anywhere(text, prefix) ==
    \/ /\ Len(text) >= Len(prefix)
       /\ SubSeq(text, 1, Len(prefix)) = prefix
    \/ /\ text # <<>>
       /\ StartsWith_Anywhere(Tail(text), prefix)

\* str.startswith(prefix)
StartsWith(text, prefix) ==
    /\ Len(text) >= Len(prefix)
    /\ SubSeq(text, 1, Len(prefix)) = prefix

\* line.split(":", 1)[1]: what follows the first colon.
RECURSIVE AfterFirstColon(_)
AfterFirstColon(line) ==
    IF Head(line) = ":" THEN Tail(line) ELSE AfterFirstColon(Tail(line))

FrameworkPrefix == <<"f", "r", "a", "m", "e", "w", "o", "r", "k", ":">>
JustificationPrefix == <<"j", "u", "s", "t", "i", "f", "i", "c", "a", "t", "i", "o", "n", ":">>

\* Python's None and "" as values of framework and justification.
PyNone == <<"<None>">>
EmptyStr == <<>>

\* Lines 38-43: the loop over the lines, fw and ju being framework and
\* justification so far.
RECURSIVE ScanLines(_, _, _)
ScanLines(lines, fw, ju) ==
    IF lines = <<>> THEN <<fw, ju>>
    ELSE LET line       == Head(lines)
             lower_line == Lower(line)
         IN  IF StartsWith(lower_line, FrameworkPrefix)
                THEN ScanLines(Tail(lines), Strip(AfterFirstColon(line)), ju)
             ELSE IF StartsWith(lower_line, JustificationPrefix)
                THEN ScanLines(Tail(lines), fw, Strip(AfterFirstColon(line)))
             ELSE ScanLines(Tail(lines), fw, ju)

\* Lines 34-44.
parse_framework_suggestion(text) ==
    ScanLines(SplitLines(Strip(text)), PyNone, EmptyStr)

\* The pieces the lines of a response are drawn from.
Leads  == { <<>>, <<" ">> }
Labels == { <<"F", "r", "a", "m", "e", "w", "o", "r", "k">>,
            <<"F", "R", "A", "M", "E", "W", "O", "R", "K">>,
            <<"j", "u", "s", "t", "i", "f", "i", "c", "a", "t", "i", "o", "n">>,
            <<"N", "o", "t", "e">> }
Colons == { <<":">>, <<>> }
Values == { <<" ", "L", "a", "n", "g", "G", "r", "a", "p", "h", " ">>,
            <<"a", ":", "b">>,
            <<>> }
ResponseLines == { ld \o lb \o co \o va :
                     ld \in Leads, lb \in Labels, co \in Colons, va \in Values }

\* "\n".join(lines) followed by a line end.
RECURSIVE JoinLines(_)
JoinLines(lines) ==
    IF lines = <<>> THEN <<>>
    ELSE Head(lines) \o <<"\n">> \o JoinLines(Tail(lines))

IdleQ ==
    /\ qpc = "off" /\ provider = None /\ model = None /\ LLM_PRIORITY = <<>>
    /\ environ = {} /\ config_list = <<>> /\ pos = 0 /\ tried = {}
    /\ errors = <<>> /\ calls = <<>> /\ in_flight = 0 /\ http_requests = 0
    /\ result = NoValue /\ raised = NotRaised

\* A call parse_framework_suggestion(response) about to run.
InitFramework ==
    /\ fpc = "start"
    /\ \E lines \in SeqsUpTo(ResponseLines, MaxLines) :
           response = JoinLines(lines)
    /\ framework = <<>> /\ justification = <<>>
    /\ IdleQ /\ IdleT /\ IdleX /\ IdleL /\ IdleC /\ IdleW

\* Lines 34-44: the call runs and returns (framework, justification).
ParseFrameworkSuggestion ==
    /\ fpc = "start"
    /\ LET r == parse_framework_suggestion(response)
       IN  framework' = r[1] /\ justification' = r[2]
    /\ fpc' = "done"
    /\ UNCHANGED <<response, qvars, tvars, xvars, lvars, cvars,
                   wvars>>

NextFramework == ParseFrameworkSuggestion

SpecFramework == InitFramework /\ [][NextFramework]_vars

(***************************************************************************)
(* src/app.py: parse_tool_discovery_code_block.  A response is a sequence  *)
(* of tokens: a code fence, the language tag behind it, a line end, a line *)
(* of Python or a line of prose.                                           *)
(***************************************************************************)
MaxStmts == 2     \* most lines of Python in a response drawn

Tok(kind, name, expr) == [kind |-> kind, name |-> name, expr |-> expr]
Fence   == Tok("fence", "", "<fence>")   \* three backticks
LangTag == Tok("lang", "", "python")
NL      == Tok("nl", "", "\n")
Prose   == Tok("prose", "", "Here are the tools:")

\* The expressions on the right of an assignment.
Literals == { "['A']", "['B', 'C']" }
CallExpr == "__import__('os').system('id')"   \* runs a command, yields an int
UndefinedName == "tools"                      \* NameError when evaluated
ExitStmt == "raise SystemExit"                \* no subclass of Exception

\* The lines of Python: an assignment to one of the two names, an import or
\* a raise of SystemExit.
Stmts ==
    { Tok("assign", n, e) : n \in {"internal_tools", "external_tools"},
                            e \in Literals \cup {CallExpr, UndefinedName} }
    \cup { Tok("import", "", "import os") }
    \cup { Tok("exit", "", ExitStmt) }
    \cup { Prose }

\* Each line followed by a line end.
RECURSIVE AsLines(_)
AsLines(stmts) ==
    IF stmts = <<>> THEN <<>>
    ELSE << Head(stmts), NL >> \o AsLines(Tail(stmts))

\* The responses drawn: prose or not, an opening fence or not, the lines, a
\* closing fence or not.  A fence is followed by its tag, a line end or the
\* end of the text.
ToolResponses ==
    { pre \o open \o AsLines(stmts) \o close :
        pre \in { <<>>, <<Prose, NL>> },
        open \in { <<>>, <<Fence, NL>>, <<Fence, LangTag, NL>> },
        stmts \in SeqsUpTo(Stmts, MaxStmts),
        close \in { <<>>, <<Fence>>, <<Fence, NL, Prose>> } }

\* The position of the first fence of the text, 0 without one.
RECURSIVE FirstFence(_, _)
FirstFence(toks, i) ==
    IF i > Len(toks) THEN 0
    ELSE IF toks[i].kind = "fence" THEN i ELSE FirstFence(toks, i + 1)

DropFirst(toks, n) == SubSeq(toks, n + 1, Len(toks))

\* Line 50, [a-zA-Z]*: the run of letters behind the fence.
RECURSIVE DropLetters(_)
DropLetters(toks) ==
    IF toks # <<>> /\ Head(toks).kind = "lang" THEN DropLetters(Tail(toks))
    ELSE toks

\* Line 50: re.sub(r"^.*?```[a-zA-Z]*\n?", "", response, flags=re.DOTALL):
\* the text up to the first fence, the fence, its tag and one line end go.
StripLeadingFence(toks) ==
    LET f == FirstFence(toks, 1)
        a == DropFirst(toks, f)
        b == DropLetters(a)
        c == IF b # <<>> /\ Head(b).kind = "nl" THEN Tail(b) ELSE b
    IN  IF f = 0 THEN toks ELSE c

\* Line 51: re.sub(r"```.*?$", "", cleaned, flags=re.DOTALL): the first fence
\* left and the text behind it go (a line end that ends the text stays).
StripTrailingFence(toks) ==
    LET f == FirstFence(toks, 1)
    IN  IF f = 0 THEN toks
        ELSE SubSeq(toks, 1, f - 1)
             \o (IF toks[Len(toks)].kind = "nl" THEN <<NL>> ELSE <<>>)

\* Line 51: .strip() on the tokens.
RECURSIVE StripToks(_)
StripToks(toks) ==
    IF toks # <<>> /\ Head(toks).kind = "nl" THEN StripToks(Tail(toks))
    ELSE IF toks # <<>> /\ toks[Len(toks)].kind = "nl"
         THEN StripToks(SubSeq(toks, 1, Len(toks) - 1))
    ELSE toks

\* Lines 50-51: cleaned.
Cleaned(toks) == StripToks(StripTrailingFence(StripLeadingFence(toks)))

\* The statements of the cleaned text.
Statements(toks) == SelectSeq(toks, LAMBDA t : t.kind # "nl")

\* exec compiles the whole text first: prose is a SyntaxError, and then no
\* statement runs.
Compiles(stmts) ==
    \A i \in 1..Len(stmts) : stmts[i].kind \in {"assign", "import", "exit"}

\* The value an expression evaluates to.
ValueOfExpr(e) ==
    CASE e = "['A']" -> PyList(<<"A">>)
      [] e = "['B', 'C']" -> PyList(<<"B", "C">>)
      [] OTHER -> PyInt

\* Line 54: exec runs the statements in turn; st holds exec_vars, the effects
\* the statements had outside the function, whether one has raised an
\* Exception (raised) and whether one has raised SystemExit (exits).
RECURSIVE Run(_, _)
Run(stmts, st) ==
    IF stmts = <<>> \/ st.raised \/ st.exits THEN st
    ELSE LET t == Head(stmts)
         IN  IF t.kind = "import"
                THEN Run(Tail(stmts),
                         [st EXCEPT !.effects = Append(@, t.expr)])
             ELSE IF t.kind = "exit"
                THEN [st EXCEPT !.exits = TRUE]
             ELSE IF t.expr = UndefinedName
                THEN [st EXCEPT !.raised = TRUE]
             ELSE Run(Tail(stmts),
                      [st EXCEPT
                         !.effects = IF t.expr = CallExpr
                                        THEN Append(@, t.expr) ELSE @,
                         !.exec_vars =
                             [n \in (DOMAIN st.exec_vars) \cup {t.name} |->
                                 IF n = t.name THEN ValueOfExpr(t.expr)
                                 ELSE st.exec_vars[n]]])

\* Line 54: exec(cleaned, {}, exec_vars).
Exec(stmts) ==
    LET st0 == [exec_vars |-> <<>>, effects |-> <<>>, raised |-> FALSE,
                exits |-> FALSE]
    IN  IF Compiles(stmts) THEN Run(stmts, st0)
        ELSE [st0 EXCEPT !.raised = TRUE]

\* Lines 55-56: exec_vars.get(name, []).
Get(exec_vars, name) ==
    IF name \in DOMAIN exec_vars THEN exec_vars[name] ELSE PyList(<<>>)

\* A variant of parse_tool_discovery_code_block whose except branch keeps
\* what exec_vars holds.
parse_tool_discovery_code_block_KeepPartial(toks) ==
    LET st == Exec(Statements(Cleaned(toks)))
    IN  [internal_tools |-> Get(st.exec_vars, "internal_tools"),
         external_tools |-> Get(st.exec_vars, "external_tools"),
         effects |-> st.effects,
         exits |-> st.exits]

\* Lines 47-59: the pair returned, with the effects of the exec; "except
\* Exception" (line 57) does not catch SystemExit, which leaves the function
\* (exits).
parse_tool_discovery_code_block(toks) ==
    LET st == Exec(Statements(Cleaned(toks)))
    IN  [internal_tools |-> IF st.raised THEN PyList(<<>>)
                            ELSE Get(st.exec_vars, "internal_tools"),
         external_tools |-> IF st.raised THEN PyList(<<>>)
                            ELSE Get(st.exec_vars, "external_tools"),
         effects |-> st.effects,
         exits |-> st.exits]

\* A call parse_tool_discovery_code_block(response) about to run.
InitTools ==
    /\ tpc = "start"
    /\ tool_response \in ToolResponses
    /\ internal_tools = Unset /\ external_tools = Unset /\ effects = <<>>
    /\ IdleQ /\ IdleF /\ IdleX /\ IdleL /\ IdleC /\ IdleW

\* Lines 47-59: the call runs and returns (internal_tools, external_tools),
\* or SystemExit leaves it and nothing is returned.
ParseToolDiscovery ==
    /\ tpc = "start"
    /\ LET r == parse_tool_discovery_code_block(tool_response)
       IN  /\ internal_tools' = IF r.exits THEN internal_tools
                                ELSE r.internal_tools
           /\ external_tools' = IF r.exits THEN external_tools
                                ELSE r.external_tools
           /\ effects' = effects \o r.effects
           /\ tpc' = IF r.exits THEN "raised" ELSE "done"
    /\ UNCHANGED <<tool_response, qvars, fvars, xvars, lvars, cvars,
                   wvars>>

NextTools == ParseToolDiscovery

SpecTools == InitTools /\ [][NextTools]_vars

\* ---------------------------------------------------------------------------
\* extract_list_or_json (src/app.py lines 62-77)
\* ---------------------------------------------------------------------------

MaxToks == 5

\* The text is a sequence of tokens written one behind the other: brackets, a
\* comma, a JSON object, a run of letters, a fence, a line end.
LB    == Tok("lb", "", "[")
RB    == Tok("rb", "", "]")
Comma == Tok("comma", "", ",")
Item  == Tok("item", "", "{}")        \* an object, in JSON and in Python
Word  == Tok("lang", "", "json")      \* letters: commentary, or a fence's tag

ExtractToks == { LB, RB, Comma, Item, Word, Fence, NL }
ListResponses == SeqsUpTo(ExtractToks, MaxToks)

\* The value of a parsed text: its type and, for a list or a tuple, the tokens
\* of its elements without line ends and trailing commas.
PyValue(type, items) == [type |-> type, items |-> items]

\* The position of the first token of the kind, 0 without one.
RECURSIVE FirstOfKind(_, _, _)
FirstOfKind(toks, kind, i) ==
    IF i > Len(toks) THEN 0
    ELSE IF toks[i].kind = kind THEN i ELSE FirstOfKind(toks, kind, i + 1)

\* The position of the last token of the kind, 0 without one.
RECURSIVE LastOfKind(_, _, _)
LastOfKind(toks, kind, i) ==
    IF i < 1 THEN 0
    ELSE IF toks[i].kind = kind THEN i ELSE LastOfKind(toks, kind, i - 1)

\* A variant of BracketMatch for the pattern \[.*?\]: the first "[" up to the
\* first "]" behind it.
BracketMatch_NonGreedy(toks) ==
    LET f == FirstOfKind(toks, "lb", 1)
        l == IF f = 0 THEN 0 ELSE FirstOfKind(toks, "rb", f + 1)
    IN  IF f # 0 /\ l > f THEN SubSeq(toks, f, l) ELSE toks

\* Lines 68-70: re.search(r"\[.*\]", cleaned, flags=re.DOTALL): the first "["
\* up to the last "]" behind it; without such a pair cleaned stays.
BracketMatch(toks) ==
    LET f == FirstOfKind(toks, "lb", 1)
        l == LastOfKind(toks, "rb", Len(toks))
    IN  IF f # 0 /\ l > f THEN SubSeq(toks, f, l) ELSE toks

\* White space between the tokens does not count.
NoNL(toks) == SelectSeq(toks, LAMBDA t : t.kind # "nl")

\* The position behind the value that starts at i, 0 when none does: an
\* object, or a bracketed list of values separated by commas; py allows a
\* comma before the closing bracket.
RECURSIVE ValueEnd(_, _, _)
RECURSIVE ElemsEnd(_, _, _)
ValueEnd(t, i, py) ==
    IF i > Len(t) THEN 0
    ELSE IF t[i].kind = "item" THEN i + 1
    ELSE IF t[i].kind = "lb"
         THEN IF i + 1 <= Len(t) /\ t[i + 1].kind = "rb" THEN i + 2
              ELSE ElemsEnd(t, i + 1, py)
    ELSE 0
ElemsEnd(t, i, py) ==
    LET e == ValueEnd(t, i, py)
    IN  IF e = 0 \/ e > Len(t) THEN 0
        ELSE IF t[e].kind = "rb" THEN e + 1
        ELSE IF t[e].kind = "comma"
             THEN IF py /\ e + 1 <= Len(t) /\ t[e + 1].kind = "rb" THEN e + 2
                  ELSE ElemsEnd(t, e + 1, py)
        ELSE 0

\* The position behind a Python expression list that starts at i: values
\* separated by commas, a last comma allowed.
RECURSIVE ExprListEnd(_, _)
ExprListEnd(t, i) ==
    LET e == ValueEnd(t, i, TRUE)
    IN  IF e = 0 THEN 0
        ELSE IF e > Len(t) THEN e
        ELSE IF t[e].kind = "comma"
             THEN IF e = Len(t) THEN e + 1 ELSE ExprListEnd(t, e + 1)
        ELSE 0

\* A line end outside every bracket ends a Python expression.
RECURSIVE NLAtTop(_, _, _)
NLAtTop(toks, i, depth) ==
    IF i > Len(toks) THEN FALSE
    ELSE IF toks[i].kind = "nl" /\ depth = 0 THEN TRUE
    ELSE NLAtTop(toks, i + 1,
                 IF toks[i].kind = "lb" THEN depth + 1
                 ELSE IF toks[i].kind = "rb" THEN depth - 1 ELSE depth)

\* The tokens without the commas that stand before a closing bracket or at
\* the end.
RECURSIVE DropTrailingCommas(_)
DropTrailingCommas(t) ==
    IF t = <<>> THEN <<>>
    ELSE IF Head(t).kind = "comma" /\ (Len(t) = 1 \/ t[2].kind = "rb")
         THEN DropTrailingCommas(Tail(t))
    ELSE <<Head(t)>> \o DropTrailingCommas(Tail(t))

\* The value a well-formed text denotes.
Denoted(t) ==
    IF ValueEnd(t, 1, TRUE) # Len(t) + 1
       THEN PyValue("tuple", DropTrailingCommas(t))
    ELSE IF t[1].kind = "item" THEN PyValue("dict", <<>>)
    ELSE PyValue("list", DropTrailingCommas(SubSeq(t, 2, Len(t) - 1)))

\* Line 72: json.loads(cleaned); ok is FALSE when it raises.
json_loads(toks) ==
    LET t == NoNL(toks)
    IN  IF ValueEnd(t, 1, FALSE) = Len(t) + 1
           THEN [ok |-> TRUE, value |-> Denoted(t)]
           ELSE [ok |-> FALSE, value |-> PyValue("list", <<>>)]

\* Line 75: ast.literal_eval(cleaned); ok is FALSE when it raises.
literal_eval(toks) ==
    LET t == NoNL(toks)
    IN  IF ExprListEnd(t, 1) = Len(t) + 1 /\ ~NLAtTop(toks, 1, 0)
           THEN [ok |-> TRUE, value |-> Denoted(t)]
           ELSE [ok |-> FALSE, value |-> PyValue("list", <<>>)]

\* Lines 64-70: the text handed to the two parsers.
Payload(toks) == BracketMatch(Cleaned(StripToks(toks)))

\* Lines 62-77.
extract_list_or_json(toks) ==
    LET cleaned == Payload(toks)
    IN  IF json_loads(cleaned).ok THEN json_loads(cleaned).value
        ELSE IF literal_eval(cleaned).ok THEN literal_eval(cleaned).value
        ELSE PyValue("list", <<>>)

\* A call extract_list_or_json(response) about to run.
InitExtract ==
    /\ xpc = "start"
    /\ list_response \in ListResponses
    /\ extracted = Unset
    /\ IdleQ /\ IdleF /\ IdleT /\ IdleL /\ IdleC /\ IdleW

\* Lines 62-77: the call runs and returns.
ExtractListOrJson ==
    /\ xpc = "start"
    /\ extracted' = extract_list_or_json(list_response)
    /\ xpc' = "done"
    /\ UNCHANGED <<list_response, qvars, fvars, tvars, lvars, cvars,
                   wvars>>

NextExtract == ExtractListOrJson

SpecExtract == InitExtract /\ [][NextExtract]_vars

\* ---------------------------------------------------------------------------
\* write_text_log (src/utils/file_helpers.py lines 3-13)
\* ---------------------------------------------------------------------------

MaxWrites == 3

\* The log files written: the default of line 3 and one the wizard names.
LogFiles == { "app.log", "tool_discovery.log" }

\* The entry texts, as characters: empty, plain, with a blank line and a
\* bracket inside, and with a character outside ASCII.
LogTexts == { <<>>,
              <<"o", "k">>,
              <<"a", "\n", "\n", "[", "b">>,
              <<"e'">> }

\* What datetime.datetime.now() returns.
DateTime(Y, M, D, h, m, sec) ==
    [year |-> Y, month |-> M, day |-> D, hour |-> h, minute |-> m,
     second |-> sec]
Clock == { DateTime(2024, 1, 5, 9, 3, 7), DateTime(2025, 12, 31, 23, 59, 59) }

\* strftime's zero-padded decimal fields.
Digit(n) == <<"0", "1", "2", "3", "4", "5", "6", "7", "8", "9">>[n + 1]
TwoDigits(n) == << Digit(n \div 10), Digit(n % 10) >>
FourDigits(n) == << Digit(n \div 1000), Digit((n \div 100) % 10),
                    Digit((n \div 10) % 10), Digit(n % 10) >>

\* Line 11: strftime("[%Y-%m-%d %H:%M:%S]").
strftime(t) ==
    <<"[">> \o FourDigits(t.year) \o <<"-">> \o TwoDigits(t.month) \o <<"-">>
    \o TwoDigits(t.day) \o <<" ">> \o TwoDigits(t.hour) \o <<":">>
    \o TwoDigits(t.minute) \o <<":">> \o TwoDigits(t.second) \o <<"]">>

\* Line 12, encoding="utf-8": an ASCII character is one byte, written here as
\* the character; the accented e is the two bytes C3 A9.
RECURSIVE utf8(_)
utf8(chars) ==
    IF chars = <<>> THEN <<>>
    ELSE (IF Head(chars) = "e'" THEN <<"0xC3", "0xA9">> ELSE <<Head(chars)>>)
         \o utf8(Tail(chars))

\* A variant of Opened for open(filename, "w"): the file is emptied.
Opened_Truncated(content) == <<>>

\* Line 12: open(filename, "a") keeps what the file holds and writes at its
\* end; a file that does not exist is created empty.
Opened(content) == content

\* Line 13: f"{timestamp} {text}\n\n".
Entry(timestamp, text) == timestamp \o <<" ">> \o text \o <<"\n", "\n">>

\* No log file written yet.
InitLog ==
    /\ files = [f \in LogFiles |-> <<>>]
    /\ written = <<>>
    /\ IdleQ /\ IdleF /\ IdleT /\ IdleX /\ IdleC /\ IdleW

\* Lines 3-13: one call write_text_log(text, filename).
WriteTextLog ==
    /\ Len(written) < MaxWrites
    /\ \E text \in LogTexts, filename \in LogFiles, now \in Clock :
         LET timestamp == strftime(now)
         IN  /\ files' = [files EXCEPT ![filename] =
                              Opened(@) \o utf8(Entry(timestamp, text))]
             /\ written' = Append(written, [filename |-> filename,
                                            now |-> now, text |-> text])
    /\ UNCHANGED <<qvars, fvars, tvars, xvars, cvars,
                   wvars>>

NextLog == WriteTextLog

SpecLog == InitLog /\ [][NextLog]_vars

\* ---------------------------------------------------------------------------
\* cached_query_llm and the "Clear LLM Cache" button (src/app.py lines 23-32,
\* 110-112)
\* ---------------------------------------------------------------------------

MaxCacheEvents == 4

\* The arguments of a call: (prompt, provider, model, max_tokens,
\* temperature), as the wizard passes them (lines 211-217, 260-266).
CacheKeys ==
    { <<"prompt 1", "groq", "llama3-70b-8192", 512, "0.2">>,
      <<"prompt 1", "groq", "llama3-70b-8192", 512, "0.7">>,
      <<"prompt 2", "groq", "llama3-70b-8192", 512, "0.7">> }
NoKey == <<"", "", "", 0, "">>

\* What query_llm does when it is called (lines 26-32): it returns a text,
\* not always the same one for the same arguments, or raises.
QueryOutcomes ==
    { [raises |-> FALSE, value |-> "text A"],
      [raises |-> FALSE, value |-> "text B"],
      [raises |-> TRUE,  value |-> "All LLM providers failed."] }

\* Line 23, @st.cache_data: the value the function returned is kept under
\* the arguments of the call.
Stored(c, key, value) ==
    [k \in (DOMAIN c) \cup {key} |-> IF k = key THEN value ELSE c[k]]

\* A variant of Cleared that drops all entries but one.
Cleared_KeepsOne(c) ==
    IF DOMAIN c = {} THEN c
    ELSE LET kept == CHOOSE k \in DOMAIN c : TRUE
         IN  [k \in {kept} |-> c[k]]

\* Line 111: st.cache_data.clear() drops every entry.
Cleared(c) == <<>>

\* The events recorded in cache_log.
CallEvent(key, invoked, raises, value) ==
    [op |-> "call", key |-> key, invoked |-> invoked, raises |-> raises,
     value |-> value]
ClearEvent ==
    [op |-> "clear", key |-> NoKey, invoked |-> FALSE, raises |-> FALSE,
     value |-> NoValue]

\* The app has started: nothing is cached.
InitCache ==
    /\ cache = <<>>
    /\ cache_log = <<>>
    /\ IdleQ /\ IdleF /\ IdleT /\ IdleX /\ IdleL /\ IdleW

\* Lines 23-32: one call of cached_query_llm.  With an entry for the
\* arguments the entry is returned and the body does not run; without one
\* query_llm runs, and what it returns is stored and returned.
CachedQueryLLM ==
    /\ Len(cache_log) < MaxCacheEvents
    /\ \E key \in CacheKeys, o \in QueryOutcomes :
         IF key \in DOMAIN cache
            THEN /\ cache_log' = Append(cache_log,
                                   CallEvent(key, FALSE, FALSE, cache[key]))
                 /\ UNCHANGED cache
            ELSE /\ cache_log' = Append(cache_log,
                                   CallEvent(key, TRUE, o.raises, o.value))
                 /\ cache' = IF o.raises THEN cache
                             ELSE Stored(cache, key, o.value)
    /\ UNCHANGED <<qvars, fvars, tvars, xvars, lvars,
                   wvars>>

\* Lines 110-112: the button "Clear LLM Cache".
ClearLLMCache ==
    /\ Len(cache_log) < MaxCacheEvents
    /\ cache' = Cleared(cache)
    /\ cache_log' = Append(cache_log, ClearEvent)
    /\ UNCHANGED <<qvars, fvars, tvars, xvars, lvars,
                   wvars>>

NextCache ==
    \/ CachedQueryLLM
    \/ ClearLLMCache

SpecCache == InitCache /\ [][NextCache]_vars

\* ---------------------------------------------------------------------------
\* The wizard: one run of main() per user action (src/app.py lines 95-555)
\* ---------------------------------------------------------------------------

MaxLogEntries == 3

\* Lines 117 and 154-161: the six questions of step 1.
Questions == { "what", "who", "why", "where", "when", "what_output" }

\* Lines 99-105: keys_to_clear.
keys_to_clear ==
    Questions \cup
    { "objective", "user_framework", "agent_framework",
      "framework_justification", "final_framework", "internal_tools",
      "external_tools", "tools_comparison", "framework_comparison",
      "block_diagram_mermaid", "generated_code" }

\* Line 19, cut to two entries.
FRAMEWORKS == { "LangGraph", "CrewAI" }

\* The buttons of the page.
Buttons == { "Start New Project", "Validate and Suggest Framework",
             "Discover Tools", "Lookup & Compare External Tools",
             "Compare Frameworks", "Generate Block Diagram", "Generate Code" }
NoButton == "<no button>"

\* The buttons whose step calls write_text_log (lines 218, 267, 331, 407).
LoggingButtons == { "Validate and Suggest Framework", "Discover Tools",
                    "Lookup & Compare External Tools", "Compare Frameworks" }

\* What cached_query_llm does in a step: it raises (all providers failed),
\* or returns a response from which the extractors recover something, or a
\* response from which they recover nothing.
WizardOutcomes ==
    { [raises |-> TRUE,  framework |-> None, internal |-> "[]",
       external |-> "[]", list |-> "[]", text |-> ""],
      [raises |-> FALSE, framework |-> "CrewAI", internal |-> "['A']",
       external |-> "['B']", list |-> "[{'tool': 'B'}]", text |-> "graph TD"],
      [raises |-> FALSE, framework |-> None, internal |-> "[]",
       external |-> "[]", list |-> "[]", text |-> "sorry"] }

\* st.session_state: "key in", .get(key) as a condition, assignment, pop.
Has(ss, key) == key \in DOMAIN ss
GetTruthy(ss, key) == Has(ss, key) /\ ss[key] \notin { "", " ", "[]" }
Set(ss, key, value) ==
    [k \in (DOMAIN ss) \cup {key} |-> IF k = key THEN value ELSE ss[k]]
Pop(ss, keys) == [k \in (DOMAIN ss) \ keys |-> ss[k]]

\* Lines 163-166: "x and x.strip()" for an answer.
Answered(text) == text # "" /\ text # " "

\* Lines 171-178: the composed objective.
Objective(ss) ==
    "What: " \o ss["what"] \o "\nWho: " \o ss["who"] \o "\nWhy: " \o ss["why"]
    \o "\nWhere: " \o ss["where"] \o "\nWhen: " \o ss["when"]
    \o "\nWhat Output: " \o ss["what_output"]

\* A script run under way: the session state, the log, how the run has gone
\* so far ("running", or why it ended early) and the buttons it has drawn.
RunState(ss, log, outcome, buttons) ==
    [ss |-> ss, log |-> log, outcome |-> outcome, buttons |-> buttons]

\* A variant of Logged that writes the entry before the query is made.
Logged_BeforeQuery(r, o, filename) ==
    IF o.raises
       THEN [r EXCEPT !.log = Append(@, filename), !.outcome = "query raised"]
       ELSE [r EXCEPT !.log = Append(@, filename)]

\* Lines 211-218, 260-267, 324-331, 400-407: cached_query_llm, then
\* write_text_log; when the query raises the exception ends the run before
\* the log is written.
Logged(r, o, filename) ==
    IF o.raises THEN [r EXCEPT !.outcome = "query raised"]
    ELSE [r EXCEPT !.log = Append(@, filename)]

\* Lines 114-178, step 1: the six keys are created, take what the text areas
\* hold, and the run stops unless all are answered; then the objective is
\* composed.
Step1(r, w) ==
    LET ss1 == [k \in (DOMAIN r.ss) \cup Questions |->
                   IF k \in Questions THEN w[k] ELSE r.ss[k]]
    IN  IF \A q \in Questions : Answered(ss1[q])
           THEN [r EXCEPT !.ss = Set(ss1, "objective", Objective(ss1))]
           ELSE [r EXCEPT !.ss = ss1, !.outcome = "stopped"]

\* Lines 183-236, step 2: the button validates the framework chosen in the
\* select box; with both frameworks set, final_framework is set (the select
\* box of line 229 stays at its first option).
Step2(r, button, user_framework, o) ==
    IF r.outcome # "running" THEN r
    ELSE LET shown == [r EXCEPT !.buttons =
                           @ \cup {"Validate and Suggest Framework"}]
             q == Logged(shown, o, "framework_suggestion.log")
             agent_framework == IF Truthy(o.framework) THEN o.framework
                                ELSE user_framework
             set == [q EXCEPT !.ss =
                       Set(Set(Set(@, "user_framework", user_framework),
                               "agent_framework", agent_framework),
                           "framework_justification", "justification")]
             after == IF button # "Validate and Suggest Framework" THEN shown
                      ELSE IF q.outcome # "running" THEN q
                      ELSE set
         IN  IF after.outcome = "running"
                /\ GetTruthy(after.ss, "agent_framework")
                /\ GetTruthy(after.ss, "user_framework")
                THEN [after EXCEPT !.ss = Set(@, "final_framework",
                                              after.ss["user_framework"])]
                ELSE after

\* Lines 239-271, step 3, shown when final_framework is a key.
Step3(r, button, o) ==
    IF r.outcome # "running" \/ ~Has(r.ss, "final_framework") THEN r
    ELSE LET shown == [r EXCEPT !.buttons = @ \cup {"Discover Tools"}]
             q == Logged(shown, o, "tool_discovery.log")
         IN  IF button # "Discover Tools" THEN shown
             ELSE IF q.outcome # "running" THEN q
             ELSE [q EXCEPT !.ss = Set(Set(@, "internal_tools", o.internal),
                                       "external_tools", o.external)]

\* Lines 287-336, step 4, shown when external_tools is not empty.
Step4(r, button, o) ==
    IF r.outcome # "running" \/ ~GetTruthy(r.ss, "external_tools") THEN r
    ELSE LET shown == [r EXCEPT !.buttons =
                           @ \cup {"Lookup & Compare External Tools"}]
             q == Logged(shown, o, "external_tool_lookup.log")
         IN  IF button # "Lookup & Compare External Tools" THEN shown
             ELSE IF q.outcome # "running" THEN q
             ELSE [q EXCEPT !.ss = Set(@, "tools_comparison", o.list)]

\* Lines 366-415, step 5, shown when the three framework keys are present.
Step5(r, button, o) ==
    IF r.outcome # "running"
       \/ ~(\A k \in {"user_framework", "agent_framework", "final_framework"} :
               Has(r.ss, k))
       THEN r
    ELSE LET shown == [r EXCEPT !.buttons = @ \cup {"Compare Frameworks"}]
             q == Logged(shown, o, "framework_comparison.log")
         IN  IF button # "Compare Frameworks" THEN shown
             ELSE IF q.outcome # "running" THEN q
             ELSE [q EXCEPT !.ss = Set(@, "framework_comparison", o.list)]

\* Lines 453-459 and 530-533: the prompt reads these keys as attributes of
\* st.session_state; a key that is not there raises AttributeError.
PromptKeys ==
    { "objective", "final_framework", "internal_tools", "external_tools" }

\* Lines 444-503 (step 6) and 512-550 (step 7), shown when final_framework is
\* set: the prompt is composed, the query made, and its text stored under
\* the key; nothing is logged.
Generate(r, button, o, name, key) ==
    IF r.outcome # "running" \/ ~GetTruthy(r.ss, "final_framework") THEN r
    ELSE LET shown == [r EXCEPT !.buttons = @ \cup {name}]
         IN  IF button # name THEN shown
             ELSE IF ~(\A k \in PromptKeys : Has(shown.ss, k))
                  THEN [shown EXCEPT !.outcome = "AttributeError"]
             ELSE IF o.raises THEN [shown EXCEPT !.outcome = "query raised"]
             ELSE [shown EXCEPT !.ss = Set(@, key, o.text)]

\* Lines 95-555: one run of main() with the button clicked (or none), behind
\* the "Start New Project" branch.
Main(ss, w, log, button, user_framework, o) ==
    LET r0 == RunState(ss, log, "running", {"Start New Project"})
        r1 == Step1(r0, w)
        r2 == Step2(r1, button, user_framework, o)
        r3 == Step3(r2, button, o)
        r4 == Step4(r3, button, o)
        r5 == Step5(r4, button, o)
        r6 == Generate(r5, button, o, "Generate Block Diagram",
                       "block_diagram_mermaid")
        r7 == Generate(r6, button, o, "Generate Code", "generated_code")
    IN  IF r7.outcome = "running" THEN [r7 EXCEPT !.outcome = "finished"]
        ELSE r7

\* The record kept of a run.
LastRun(button, r) ==
    [button |-> button, outcome |-> r.outcome, buttons |-> r.buttons]

\* The page was opened: the first run has stopped at the empty questions.
InitWizard ==
    /\ widgets = [q \in Questions |-> ""]
    /\ session_state = [q \in Questions |-> ""]
    /\ wizard_log = <<>>
    /\ last_run = [button |-> NoButton, outcome |-> "stopped",
                   buttons |-> {"Start New Project"}]
    /\ IdleQ /\ IdleF /\ IdleT /\ IdleX /\ IdleL /\ IdleC

\* The user fills one of the text areas, and the script runs.
AnswerQuestion ==
    /\ \E q \in Questions :
         /\ widgets[q] = ""
         /\ widgets' = [widgets EXCEPT ![q] = "x"]
         /\ LET r == Main(session_state, widgets', wizard_log, NoButton,
                          "LangGraph", CHOOSE o \in WizardOutcomes : o.raises)
            IN  /\ session_state' = r.ss
                /\ wizard_log' = r.log
                /\ last_run' = LastRun(NoButton, r)
    /\ UNCHANGED <<qvars, fvars, tvars, xvars, lvars, cvars>>

\* Lines 98-108: "Start New Project" pops the keys and calls st.rerun(); the
\* run that follows has no button clicked.  The text areas are keyed
\* what_input, ..., which are not popped: whether st.rerun(), called before
\* they are drawn, drops what they hold depends on the Streamlit release.
StartNewProject ==
    /\ "Start New Project" \in last_run.buttons
    /\ \E kept \in BOOLEAN :
         /\ widgets' = IF kept THEN widgets ELSE [q \in Questions |-> ""]
         /\ LET r == Main(Pop(session_state, keys_to_clear), widgets',
                          wizard_log, NoButton, "LangGraph",
                          CHOOSE o \in WizardOutcomes : o.raises)
            IN  /\ session_state' = r.ss
                /\ wizard_log' = r.log
                /\ last_run' = LastRun("Start New Project", r)
    /\ UNCHANGED <<qvars, fvars, tvars, xvars, lvars, cvars>>

\* The user clicks one of the buttons the latest run has drawn, and the
\* script runs with that button set.
ClickButton ==
    /\ \E button \in last_run.buttons \ {"Start New Project"},
          user_framework \in FRAMEWORKS, o \in WizardOutcomes :
         LET r == Main(session_state, widgets, wizard_log, button,
                       user_framework, o)
         IN  /\ button \in LoggingButtons => Len(wizard_log) < MaxLogEntries
             /\ session_state' = r.ss
             /\ wizard_log' = r.log
             /\ last_run' = LastRun(button, r)
    /\ UNCHANGED <<widgets, qvars, fvars, tvars, xvars, lvars, cvars>>

NextWizard ==
    \/ AnswerQuestion
    \/ StartNewProject
    \/ ClickButton

SpecWizard == InitWizard /\ [][NextWizard]_vars

(***************************************************************************)
(* Properties of query_llm, checked under SpecQuery.                       *)
(***************************************************************************)
Registered(conf) == conf.provider \in PROVIDER_FN
PreferredGiven == Truthy(provider) /\ Truthy(model)
LastCall == calls[Len(calls)]

\* The candidate at position k was invoked and its invoker raised.
InvokedAndFailed(k) ==
    \E i \in 1..Len(calls) : calls[i].conf = config_list[k] /\ calls[i].raises

\* The invocations follow the candidate list, one at a time: every invocation
\* but the latest has raised, and the positions invoked increase.
InvokedInOrder ==
    \A i \in 1..Len(calls) :
        i < Len(calls) => calls[i].raises /\ calls[i].at < calls[i + 1].at

\* C1 as stated: candidates are invoked one after another in candidate-list
\* order; when query_llm returns, it returns the value of the latest
\* invocation, EVERY candidate before that one was invoked and failed, and no
\* candidate after it was invoked.
C1_Original ==
    /\ InvokedInOrder
    /\ qpc = "returned" =>
         /\ Len(calls) > 0 /\ ~LastCall.raises /\ result = LastCall.value
         /\ LastCall.at = pos
         /\ \A k \in 1..(pos - 1) : InvokedAndFailed(k)

\* C1 as amended: candidates are invoked one after another in candidate-list
\* order; when query_llm returns, it returns the value of the latest
\* invocation, every candidate before that one whose provider has a registered
\* invoker was invoked and failed, a candidate before it whose provider has
\* none was never invoked, and no invocation lies behind the returned one.
C1_FirstSuccessReturned ==
    /\ InvokedInOrder
    /\ qpc = "returned" =>
         /\ Len(calls) > 0 /\ ~LastCall.raises /\ result = LastCall.value
         /\ LastCall.at = pos
         /\ \A k \in 1..(pos - 1) :
                Registered(config_list[k]) => InvokedAndFailed(k)
         /\ \A k \in 1..(pos - 1) :
                ~Registered(config_list[k]) =>
                    \A i \in 1..Len(calls) : calls[i].conf # config_list[k]

\* query_llm returned the value of its second invocation, and a candidate stood
\* behind it that was never invoked.
C1_Witness ==
    /\ qpc = "returned" /\ Len(calls) = 2
    /\ calls[1].raises /\ pos < Len(config_list)
    /\ Registered(config_list[pos + 1])
    /\ config_list[pos + 1] \notin { calls[i].conf : i \in 1..Len(calls) }

RECURSIVE JoinedUpTo(_, _)
JoinedUpTo(errs, k) ==
    IF k = 0 THEN ""
    ELSE IF k = 1 THEN errs[1]
    ELSE JoinedUpTo(errs, k - 1) \o " | " \o errs[k]

\* C3: when every invoked candidate raised, query_llm raises the
\* all-providers-failed error; errors holds one entry
\* "provider:model -- reason" per distinct candidate attempted, in the order of
\* the attempts, and the message joins them by " | ".
C3_AllFailedDiagnostics ==
    qpc = "raised" =>
        /\ raised.type = "RuntimeError"
        /\ \A i \in 1..Len(calls) : calls[i].raises
        /\ Len(errors) = Len(calls)
        /\ Len(errors) = Cardinality({ calls[i].conf : i \in 1..Len(calls) })
        /\ \A i \in 1..Len(errors) :
               errors[i] = calls[i].conf.provider \o ":" \o calls[i].conf.model
                           \o " -- " \o calls[i].value
        /\ raised.message = "All LLM providers failed. Errors: "
                            \o JoinedUpTo(errors, Len(errors))

\* All candidates failed, one for its missing secret and one on the wire.
C3_Witness ==
    /\ qpc = "raised" /\ Len(errors) >= 2
    /\ \E i, j \in 1..Len(calls) : ~calls[i].sent /\ calls[j].sent

\* The candidates with a registered provider, each at its first occurrence.
RECURSIVE Attemptable(_, _)
Attemptable(list, seen) ==
    IF list = <<>> THEN <<>>
    ELSE IF Registered(Head(list)) /\ Head(list) \notin seen
         THEN <<Head(list)>> \o Attemptable(Tail(list), seen \cup {Head(list)})
         ELSE Attemptable(Tail(list), seen)

\* C4: config_list is the preferred pair (when provider and model are both
\* given) followed by the entries of the priority list, in its order, that
\* differ from the preferred pair; the candidates are attempted in the order
\* this list fixes.
C4_CandidateList ==
    qpc # "start" =>
        /\ config_list =
              (IF PreferredGiven THEN << Conf(provider, model) >> ELSE <<>>)
              \o SelectSeq(LLM_PRIORITY,
                           LAMBDA e : ~(PreferredGiven /\ e = Conf(provider, model)))
        /\ LET order == Attemptable(config_list, {})
           IN  /\ Len(calls) <= Len(order)
               /\ \A i \in 1..Len(calls) : calls[i].conf = order[i]

\* The preferred pair also stands in the shipped priority list, and the loop
\* has run to its end.
C4_Witness ==
    /\ qpc = "raised" /\ PreferredGiven /\ LLM_PRIORITY = ShippedPriority
    /\ \E k \in 1..2 : LLM_PRIORITY[k] = Conf(provider, model)
    /\ Len(calls) = 2

\* C5: query_llm never returns an empty or absent completion: a response
\* without completion content makes it fall back to the next candidate.
C5_NeverReturnsEmpty ==
    qpc = "returned" => result \notin {None, ""}

\* C6: an error of an invoker never leaves query_llm: it is recorded as
\* provider, model and message and the loop goes on; the only exception that
\* reaches the caller is the all-providers-failed error, raised once the
\* candidate list is exhausted.
C6_ErrorsNeverEscape ==
    /\ raised # NotRaised =>
          /\ qpc = "raised"
          /\ raised.type = "RuntimeError"
          /\ pos > Len(config_list)
    /\ LET failed == SelectSeq(calls, LAMBDA c : c.raises)
       IN  /\ Len(errors) = Len(failed)
           /\ \A i \in 1..Len(failed) :
                 errors[i] = FormatError(failed[i].conf.provider,
                                         failed[i].conf.model, failed[i].value)
    /\ \A i \in 1..Len(calls) :
          (calls[i].raises /\ qpc # "raised") => pos > calls[i].at

\* An invoker raised while an untried candidate remained, and that candidate
\* was invoked next.
C6_Witness ==
    /\ Len(calls) >= 2 /\ calls[1].raises /\ calls[1].sent
    /\ qpc = "returned"

\* C7: a candidate whose provider's secret is not set fails before any HTTP
\* request is sent; the failure is recorded for that candidate alone, and the
\* candidates after it are still tried.
C7_MissingSecret ==
    /\ \A i \in 1..Len(calls) :
          ~HasKey(calls[i].conf.provider, environ) =>
              /\ ~calls[i].sent
              /\ calls[i].raises
              /\ i <= Len(errors)
              /\ errors[i] = FormatError(calls[i].conf.provider,
                                         calls[i].conf.model,
                                         MissingKeyMessage(calls[i].conf.provider))
    /\ Len(errors) <= Len(calls)
    /\ qpc = "raised" =>
          \A k \in 1..Len(config_list) :
              Registered(config_list[k]) =>
                  \E i \in 1..Len(calls) : calls[i].conf = config_list[k]

\* A candidate failed for its missing secret and the next candidate, whose
\* secret is set, was invoked and answered.
C7_Witness ==
    /\ qpc = "returned" /\ Len(calls) = 2
    /\ ~HasKey(calls[1].conf.provider, environ) /\ ~calls[1].sent
    /\ calls[2].sent /\ Len(errors) = 1


(***************************************************************************)
(* Properties of parse_framework_suggestion, checked under SpecFramework.  *)
(***************************************************************************)
\* The line begins, whatever the case of its letters, with the label.
HasLabel(line, label) ==
    /\ Len(line) >= Len(label)
    /\ \A i \in 1..Len(label) : LowerChar(line[i]) = label[i]

\* The value of a labelled line: what follows its first colon, trimmed.
RECURSIVE FirstColonAt(_, _)
FirstColonAt(line, i) == IF line[i] = ":" THEN i ELSE FirstColonAt(line, i + 1)
ValueOf(line) ==
    Strip(SubSeq(line, FirstColonAt(line, 1) + 1, Len(line)))

\* The lines of the response as it was handed in, and of the response with
\* the white space at its two ends removed.
GivenLines   == SplitLines(response)
TrimmedLines == SplitLines(Strip(response))

FirstWith(lines, label) ==
    CHOOSE i \in 1..Len(lines) :
        /\ HasLabel(lines[i], label)
        /\ \A j \in 1..(i - 1) : ~HasLabel(lines[j], label)

\* C9: framework is the value of the FIRST line that begins with
\* "framework:" (later such lines change nothing), the value being the text
\* after the line's first colon, trimmed; the same for "justification:".
C9_FirstMatchWins ==
    fpc = "done" =>
        LET lines == TrimmedLines
        IN  /\ (\E i \in 1..Len(lines) : HasLabel(lines[i], FrameworkPrefix))
                 => framework = ValueOf(lines[FirstWith(lines, FrameworkPrefix)])
            /\ (\E i \in 1..Len(lines) : HasLabel(lines[i], JustificationPrefix))
                 => justification =
                        ValueOf(lines[FirstWith(lines, JustificationPrefix)])

Labelled(line) ==
    HasLabel(line, FrameworkPrefix) \/ HasLabel(line, JustificationPrefix)

\* C10 as stated, the lines being those of the text handed in: without a line
\* that begins with "framework:" the framework is None, without a line that
\* begins with "justification:" the justification is "", and the lines that
\* begin with neither do not change the result.
C10_Original ==
    fpc = "done" =>
        LET lines == GivenLines
        IN  /\ (\A i \in 1..Len(lines) : ~HasLabel(lines[i], FrameworkPrefix))
                 => framework = PyNone
            /\ (\A i \in 1..Len(lines) : ~HasLabel(lines[i], JustificationPrefix))
                 => justification = EmptyStr
            /\ <<framework, justification>> =
                 ScanLines(SelectSeq(lines, Labelled), PyNone, EmptyStr)

\* C10 as amended, the lines being those of the text once the white space at
\* its two ends is removed: without a line that begins with "framework:" the
\* framework is None, without a line that begins with "justification:" the
\* justification is "", and the lines that begin with neither do not change
\* the result.
C10_DefaultsWhenAbsent ==
    fpc = "done" =>
        LET lines == TrimmedLines
        IN  /\ (\A i \in 1..Len(lines) : ~HasLabel(lines[i], FrameworkPrefix))
                 => framework = PyNone
            /\ (\A i \in 1..Len(lines) : ~HasLabel(lines[i], JustificationPrefix))
                 => justification = EmptyStr
            /\ <<framework, justification>> =
                 ScanLines(SelectSeq(lines, Labelled), PyNone, EmptyStr)

\* A response of two lines was parsed: neither begins with a label, the second
\* holds "Framework:" behind a blank, and the defaults were returned.
C10_Witness ==
    /\ fpc = "done" /\ Len(TrimmedLines) = 2
    /\ ~Labelled(TrimmedLines[1])
    /\ HasLabel(Tail(TrimmedLines[2]), FrameworkPrefix)
    /\ TrimmedLines[2][1] = " "
    /\ framework = PyNone /\ justification = EmptyStr


(***************************************************************************)
(* Properties of parse_tool_discovery_code_block, checked under SpecTools. *)
(***************************************************************************)
\* The response holds something that is no list literal where a list is to
\* stand, or an import.
HasNonLiteral(toks) ==
    \E i \in 1..Len(toks) :
        \/ toks[i].kind = "import"
        \/ toks[i].kind = "assign" /\ toks[i].expr \notin Literals

\* C8: parse_tool_discovery_code_block never executes code of the response:
\* nothing the response holds has an effect, and a response with a non-literal
\* expression in place of a list yields ([], []).
C8_NeverExecutes ==
    tpc = "done" =>
        /\ effects = <<>>
        /\ HasNonLiteral(tool_response) =>
               /\ internal_tools = PyList(<<>>)
               /\ external_tools = PyList(<<>>)


\* The statements exec is handed, and whether the text assigns the name.
ExecutedStatements == Statements(Cleaned(tool_response))
Assigns(name) ==
    \E i \in 1..Len(ExecutedStatements) :
        ExecutedStatements[i].kind = "assign" /\ ExecutedStatements[i].name = name

\* The evaluation fails with an error: the text does not compile, or a
\* statement that is reached evaluates an undefined name.
RECURSIVE FailsFrom(_, _)
FailsFrom(stmts, i) ==
    IF i > Len(stmts) THEN FALSE
    ELSE IF stmts[i].kind = "exit" THEN FALSE
    ELSE IF stmts[i].kind = "assign" /\ stmts[i].expr = UndefinedName THEN TRUE
    ELSE FailsFrom(stmts, i + 1)
EvaluationFails ==
    \/ \E i \in 1..Len(ExecutedStatements) : ExecutedStatements[i].kind = "prose"
    \/ FailsFrom(ExecutedStatements, 1)

\* A statement raising SystemExit is reached before any error.
RECURSIVE ExitsFrom(_, _)
ExitsFrom(stmts, i) ==
    IF i > Len(stmts) THEN FALSE
    ELSE IF stmts[i].kind = "exit" THEN TRUE
    ELSE IF stmts[i].kind = "assign" /\ stmts[i].expr = UndefinedName THEN FALSE
    ELSE ExitsFrom(stmts, i + 1)
EvaluationExits ==
    /\ \A i \in 1..Len(ExecutedStatements) : ExecutedStatements[i].kind # "prose"
    /\ ExitsFrom(ExecutedStatements, 1)

\* The value the last assignment to the name gives it.
LastAssigned(name) ==
    LET i == CHOOSE k \in 1..Len(ExecutedStatements) :
                 /\ ExecutedStatements[k].kind = "assign"
                 /\ ExecutedStatements[k].name = name
                 /\ \A j \in (k + 1)..Len(ExecutedStatements) :
                        ~(ExecutedStatements[j].kind = "assign"
                          /\ ExecutedStatements[j].name = name)
    IN  IF ExecutedStatements[i].expr = "['A']" THEN PyList(<<"A">>)
        ELSE IF ExecutedStatements[i].expr = "['B', 'C']" THEN PyList(<<"B", "C">>)
        ELSE PyInt

C13_NeverRaises ==
    tpc # "raised"


\* C17: query_llm declares total failure only after it has invoked at least
\* one candidate: the all-providers-failed error is raised with at least one
\* invocation made and a non-empty diagnostic list.
C17_AttemptsBeforeFailure ==
    (qpc = "raised" /\ raised.type = "RuntimeError") =>
        /\ Len(calls) >= 1
        /\ Len(errors) >= 1
        /\ raised.message # AllFailedMessage(<<>>)

\* The invocations that posted their HTTP request.
Posted == { i \in 1..Len(calls) : calls[i].sent }

\* The distinct candidates of config_list.
DistinctCandidates == { config_list[k] : k \in 1..Len(config_list) }

\* C18: during one query_llm call at most one HTTP request is in flight at any
\* moment, each invocation of a candidate issues at most one HTTP request, and
\* the number of HTTP requests made is at most the number of distinct
\* candidates.
C18_OneRequestAtATime ==
    /\ in_flight \in {0, 1}
    /\ in_flight = 1 <=> qpc = "http"
    /\ http_requests = Cardinality(Posted)
    /\ http_requests <= Len(calls)
    /\ http_requests <= Cardinality(DistinctCandidates)

\* The first request was answered with an error and the second one, to the
\* next candidate, is in flight.
C18_Witness ==
    /\ qpc = "http" /\ in_flight = 1 /\ http_requests = 2
    /\ Len(calls) = 2 /\ calls[1].sent /\ calls[1].raises
    /\ calls[1].conf # calls[2].conf

\* No trace of the candidate at position k: no invocation, no entry in tried,
\* and no diagnostic beyond those of the invocations that failed.
Untouched(k) ==
    /\ \A i \in 1..Len(calls) : calls[i].conf # config_list[k]
    /\ <<config_list[k].provider, config_list[k].model>> \notin tried
    /\ Len(errors) = Cardinality({ i \in 1..Len(calls) :
                                     calls[i].raises /\ calls[i].value # NoValue })

\* The loop stands at a candidate whose provider has no registered invoker.
AtUnregistered ==
    /\ qpc = "loop" /\ pos <= Len(config_list)
    /\ ~Registered(config_list[pos])

\* C19: a candidate whose provider has no registered invoker is skipped by
\* query_llm: it is never invoked, it is not added to tried, no error entry is
\* recorded for it, and the loop goes on to the next candidate.
C19_UnregisteredSkipped ==
    /\ [](\A k \in 1..Len(config_list) :
              ~Registered(config_list[k]) => Untouched(k))
    /\ [][AtUnregistered =>
              /\ pos' = pos + 1 /\ qpc' = "loop"
              /\ UNCHANGED <<tried, errors, calls, in_flight, http_requests,
                             result, raised, config_list>>]_vars

\* The preferred pair names a provider without invoker, and the first entry of
\* the priority list was invoked after it was passed over.
C19_Witness ==
    /\ PreferredGiven /\ provider = "openai"
    /\ Len(config_list) >= 2 /\ config_list[1] = Conf(provider, model)
    /\ Len(calls) >= 1 /\ calls[1].at = 2
    /\ Untouched(1)


\* The first "[" and the last "]" of a text, and the text between them.
FirstLB(toks) == FirstOfKind(toks, "lb", 1)
LastRB(toks)  == LastOfKind(toks, "rb", Len(toks))
Span(toks) ==
    IF FirstLB(toks) # 0 /\ LastRB(toks) > FirstLB(toks)
       THEN SubSeq(toks, FirstLB(toks), LastRB(toks))
       ELSE <<>>

\* The tokens are a JSON array: brackets around values separated by commas.
IsJsonArray(toks) ==
    LET t == NoNL(toks)
    IN  t # <<>> /\ t[1].kind = "lb" /\ ValueEnd(t, 1, FALSE) = Len(t) + 1

\* The array the tokens of a JSON array denote.
ArrayOf(toks) ==
    LET t == NoNL(toks) IN PyValue("list", SubSeq(t, 2, Len(t) - 1))

\* C12: extract_list_or_json considers only the text from the first "[" to
\* the last "]" inclusive: when that text is a valid JSON array, whatever
\* stands before the opening bracket and behind the closing bracket, the
\* result is exactly that array.
C12_CommentaryIgnored ==
    (xpc = "done" /\ IsJsonArray(Span(list_response)))
        => extracted = ArrayOf(Span(list_response))

\* The square brackets of the tokens are balanced: none closes before it was
\* opened and none stays open.
RECURSIVE BalancedFrom(_, _, _)
BalancedFrom(toks, i, depth) ==
    IF depth < 0 THEN FALSE
    ELSE IF i > Len(toks) THEN depth = 0
    ELSE BalancedFrom(toks, i + 1,
                      IF toks[i].kind = "lb" THEN depth + 1
                      ELSE IF toks[i].kind = "rb" THEN depth - 1 ELSE depth)
Balanced(toks) == BalancedFrom(toks, 1, 0)

\* The text the parsers are handed: of the text left by the removal of the
\* fences, the first "[" to the last "]", or all of it without such a pair.
Candidate ==
    LET c == Cleaned(StripToks(list_response))
    IN  IF Span(c) # <<>> THEN Span(c) ELSE c

\* C14 as stated: for a text whose square brackets are unbalanced,
\* extract_list_or_json returns the empty list.
C14_Original ==
    (xpc = "done" /\ ~Balanced(list_response))
        => extracted = PyValue("list", <<>>)

\* C14 as amended: extract_list_or_json returns the empty list whenever the
\* square brackets are unbalanced in the text it hands to the parsers, which
\* is the first "[" to the last "]" of the text left by the removal of the
\* fences (all of that text when it holds no such pair); a "]" before the
\* first "[" and a "[" behind the last "]" are not part of it.
C14_UnbalancedPayloadEmpty ==
    (xpc = "done" /\ ~Balanced(Candidate))
        => extracted = PyValue("list", <<>>)

\* An array followed by one more closing bracket was parsed.
C14_Witness ==
    /\ xpc = "done"
    /\ list_response = <<LB, Item, RB, RB>>
    /\ ~Balanced(Candidate)
    /\ extracted = PyValue("list", <<>>)

\* C20: the value extract_list_or_json returns is always a list: a parsed
\* array or the empty list, never a scalar, a string or a mapping.
C20_AlwaysList ==
    xpc = "done" => extracted.type = "list"


\* Reading a log file back: the bytes decoded as UTF-8.
RECURSIVE Decoded(_)
Decoded(bytes) ==
    IF bytes = <<>> THEN <<>>
    ELSE IF Head(bytes) = "0xC3" /\ Len(bytes) >= 2 /\ bytes[2] = "0xA9"
         THEN <<"e'">> \o Decoded(SubSeq(bytes, 3, Len(bytes)))
    ELSE <<Head(bytes)>> \o Decoded(Tail(bytes))

\* The characters have the form [YYYY-MM-DD HH:MM:SS].
DigitChars == { "0", "1", "2", "3", "4", "5", "6", "7", "8", "9" }
IsTimestamp(chars) ==
    /\ Len(chars) = 21
    /\ chars[1] = "[" /\ chars[6] = "-" /\ chars[9] = "-" /\ chars[12] = " "
    /\ chars[15] = ":" /\ chars[18] = ":" /\ chars[21] = "]"
    /\ \A i \in {2, 3, 4, 5, 7, 8, 10, 11, 13, 14, 16, 17, 19, 20} :
           chars[i] \in DigitChars

\* The number of characters the first n calls on the file have written.
RECURSIVE WrittenBefore(_, _)
WrittenBefore(f, n) ==
    IF n = 0 THEN 0
    ELSE WrittenBefore(f, n - 1)
         + (IF written[n].filename = f THEN 21 + 1 + Len(written[n].text) + 2
            ELSE 0)

\* The entry of call n stands in its file behind all that earlier calls
\* wrote there: timestamp, one space, the text, two line ends.
EntryInPlace(n) ==
    LET chars == Decoded(files[written[n].filename])
        at    == WrittenBefore(written[n].filename, n - 1)
        len   == Len(written[n].text)
    IN  /\ Len(chars) >= at + 21 + 1 + len + 2
        /\ IsTimestamp(SubSeq(chars, at + 1, at + 21))
        /\ SubSeq(chars, at + 1, at + 21) = strftime(written[n].now)
        /\ chars[at + 22] = " "
        /\ SubSeq(chars, at + 23, at + 22 + len) = written[n].text
        /\ chars[at + 23 + len] = "\n" /\ chars[at + 24 + len] = "\n"

\* C15: the request log is append-only: after any sequence of write_text_log
\* calls a file holds, in call order, one entry per call on it, each of the
\* form [YYYY-MM-DD HH:MM:SS], a space, the entry text and two line ends, and
\* nothing else; a call leaves the bytes of earlier calls as they are; and
\* reading the file back recovers each entry text exactly.
C15_AppendOnly ==
    /\ [](/\ \A n \in 1..Len(written) : EntryInPlace(n)
          /\ \A f \in LogFiles :
                 Len(Decoded(files[f])) = WrittenBefore(f, Len(written)))
    /\ [][\A f \in LogFiles :
              /\ Len(files'[f]) >= Len(files[f])
              /\ SubSeq(files'[f], 1, Len(files[f])) = files[f]]_vars

\* Two calls have written to the same file, the second one a text outside
\* ASCII behind a text with a blank line in it.
C15_Witness ==
    /\ Len(written) = 2
    /\ written[1].filename = written[2].filename
    /\ written[1].text = <<"a", "\n", "\n", "[", "b">>
    /\ written[2].text = <<"e'">>
    /\ written[1].now # written[2].now


\* The calls before event j that returned a text for the same key with no
\* clear between them and j.
ReturnedBefore(j) ==
    { i \in 1..(j - 1) :
        /\ cache_log[i].op = "call" /\ ~cache_log[i].raises
        /\ cache_log[i].key = cache_log[j].key
        /\ \A k \in (i + 1)..(j - 1) : cache_log[k].op # "clear" }

\* The keys for which a call has returned a text since the last clear.
ReturnedSinceClear ==
    { cache_log[i].key : i \in { n \in 1..Len(cache_log) :
        /\ cache_log[n].op = "call" /\ ~cache_log[n].raises
        /\ \A k \in (n + 1)..Len(cache_log) : cache_log[k].op # "clear" } }

\* C16: once cached_query_llm has returned a text for a key, every later
\* call with the same key returns the same text without invoking query_llm,
\* until "Clear LLM Cache"; a call without such an earlier return invokes
\* query_llm; the clear removes all entries at once, and no entry is removed
\* or changed otherwise.
C16_CachedUntilCleared ==
    /\ [](/\ \A j \in 1..Len(cache_log) :
                cache_log[j].op = "call" =>
                    IF ReturnedBefore(j) # {}
                       THEN /\ ~cache_log[j].invoked /\ ~cache_log[j].raises
                            /\ \A i \in ReturnedBefore(j) :
                                   cache_log[j].value = cache_log[i].value
                       ELSE cache_log[j].invoked
          /\ DOMAIN cache = ReturnedSinceClear)
    /\ [][\/ /\ DOMAIN cache' = {}
             /\ cache_log'[Len(cache_log')].op = "clear"
          \/ /\ DOMAIN cache \subseteq DOMAIN cache'
             /\ \A k \in DOMAIN cache : cache'[k] = cache[k]]_vars

\* A text was returned for a key and returned again without a call of
\* query_llm; after the clear the same key made query_llm run again, and it
\* gave another text.
C16_Witness ==
    /\ Len(cache_log) = 4
    /\ cache_log[1].op = "call" /\ cache_log[1].invoked
    /\ cache_log[1].value = "text A"
    /\ cache_log[2].op = "call" /\ cache_log[2].key = cache_log[1].key
    /\ ~cache_log[2].invoked /\ cache_log[2].value = "text A"
    /\ cache_log[3].op = "clear"
    /\ cache_log[4].op = "call" /\ cache_log[4].key = cache_log[1].key
    /\ cache_log[4].invoked /\ cache_log[4].value = "text B"


\* Exactly one of provider and model was supplied; the other is missing or
\* empty.
Missing(v) == v = None \/ v = ""
OnlyOneGiven == Missing(provider) # Missing(model)

\* C23 as stated: when only one of provider and model is supplied, the
\* candidate list is the static priority list, and the candidates attempted
\* are its entries in declared order with none skipped: the i-th invocation
\* is of the i-th entry, and total failure comes after all were invoked.
C23_Original ==
    (OnlyOneGiven /\ qpc # "start") =>
        /\ config_list = LLM_PRIORITY
        /\ Len(calls) <= Len(LLM_PRIORITY)
        /\ \A i \in 1..Len(calls) : calls[i].conf = LLM_PRIORITY[i]
        /\ (qpc = "raised" /\ raised.type = "RuntimeError")
               => Len(calls) = Len(LLM_PRIORITY)

\* C23 as amended: when only one of provider and model is supplied, the
\* candidate list is the static priority list, none of its entries removed;
\* the candidates invoked are, in declared order, its entries whose provider
\* has a registered invoker, each (provider, model) pair once; total failure
\* comes after all of these were invoked.
C23_PreferredIgnored ==
    (OnlyOneGiven /\ qpc # "start") =>
        /\ config_list = LLM_PRIORITY
        /\ LET order == Attemptable(LLM_PRIORITY, {})
           IN  /\ Len(calls) <= Len(order)
               /\ \A i \in 1..Len(calls) : calls[i].conf = order[i]
               /\ (qpc = "raised" /\ raised.type = "RuntimeError")
                      => Len(calls) = Len(order)

\* Only the provider was supplied, with an empty model; both entries of the
\* shipped priority list were invoked and failed.
C23_Witness ==
    /\ provider = "groq" /\ model = ""
    /\ LLM_PRIORITY = ShippedPriority
    /\ qpc = "raised" /\ Len(calls) = 2


\* The buttons of steps 6 and 7, and of steps 3 to 7.
GenerateButtons == { "Generate Block Diagram", "Generate Code" }
LaterButtons ==
    { "Discover Tools", "Lookup & Compare External Tools",
      "Compare Frameworks", "Generate Block Diagram", "Generate Code" }

\* C21: whenever "Generate Block Diagram" or "Generate Code" can be clicked,
\* every session key the step reads (objective, final_framework,
\* internal_tools, external_tools) has been set, and no run of these steps
\* has read an unset key.
C21_GenerateReadsSetKeys ==
    /\ (last_run.buttons \cap GenerateButtons # {}) =>
           \A k \in { "objective", "final_framework", "internal_tools",
                      "external_tools" } : k \in DOMAIN session_state
    /\ last_run.outcome # "AttributeError"

\* The result keys of the steps.
ResultKeys ==
    { "agent_framework", "internal_tools", "external_tools",
      "tools_comparison", "framework_comparison", "block_diagram_mermaid",
      "generated_code" }

\* The log file of each step that logs.
LogFileOf(button) ==
    IF button = "Validate and Suggest Framework" THEN "framework_suggestion.log"
    ELSE IF button = "Discover Tools" THEN "tool_discovery.log"
    ELSE IF button = "Lookup & Compare External Tools"
         THEN "external_tool_lookup.log"
    ELSE "framework_comparison.log"

\* C22: a run in which the query of a step raises appends nothing to the log
\* and leaves every result key as it was, present or absent; the log grows
\* only by the one entry of a step whose query has returned.
C22_FailedQueryLeavesNoTrace ==
    [][/\ last_run'.outcome = "query raised" =>
            /\ wizard_log' = wizard_log
            /\ \A k \in ResultKeys :
                   /\ (k \in DOMAIN session_state') = (k \in DOMAIN session_state)
                   /\ k \in DOMAIN session_state =>
                          session_state'[k] = session_state[k]
       /\ wizard_log' # wizard_log =>
            /\ last_run'.outcome = "finished"
            /\ last_run'.button \in { "Validate and Suggest Framework",
                   "Discover Tools", "Lookup & Compare External Tools",
                   "Compare Frameworks" }
            /\ wizard_log' = Append(wizard_log, LogFileOf(last_run'.button))
      ]_vars

\* The query of "Discover Tools" has raised, after a validation that was
\* logged: the log holds that one entry and no tool key was set.
C22_Witness ==
    /\ last_run.button = "Discover Tools"
    /\ last_run.outcome = "query raised"
    /\ wizard_log = << "framework_suggestion.log" >>
    /\ "agent_framework" \in DOMAIN session_state
    /\ "internal_tools" \notin DOMAIN session_state

\* C24: after "Start New Project" every wizard key is absent or empty; the
\* buttons of steps 3 to 7 are shown only with the six questions answered
\* and a validation that has set final_framework since; step 4 is shown only
\* with external_tools not empty.
C24_ResetReturnsToStart ==
    /\ last_run.button = "Start New Project" =>
           \A k \in keys_to_clear :
               k \in DOMAIN session_state => session_state[k] \in {"", "[]"}
    /\ (last_run.buttons \cap LaterButtons # {}) =>
           /\ \A q \in Questions : session_state[q] \notin {"", " "}
           /\ "agent_framework" \in DOMAIN session_state
           /\ "final_framework" \in DOMAIN session_state
    /\ "Lookup & Compare External Tools" \in last_run.buttons =>
           /\ "external_tools" \in DOMAIN session_state
           /\ session_state["external_tools"] # "[]"

=============================================================================
